---------------------------- MODULE Spec2Model ----------------------------
(***************************************************************************)
(* decaydata (ddata): selection of the decay records of a nuclide by its   *)
(* isomeric state, their ordering, and the run of main around them.        *)
(*                                                                         *)
(* Option<T> values are sequences: None is <<>>, Some(x) is <<x>>.         *)
(* f32 values are integers on an abstract scale (exact equality is all     *)
(* the code uses); the input data are NaN-free.  Strings that are sorted   *)
(* are sequences of character codes, compared as Rust compares Strings.    *)
(***************************************************************************)
EXTENDS Integers, Sequences, FiniteSets, TLC

VARIABLES
    pc,        \* position of main: "parse", "find", "sort", "retain", the output steps, "done"
    cli,       \* the parsed command line (fields of Cli that main reads)
    nuclides,  \* Vec<NuclideData> of main
    idx,       \* position of the iter_mut() loop over nuclides (1-based)
    raw,       \* nuclide_records: what the provider returned to the last find_records
    calls,     \* one entry per expand_elements call of parse_nuclides: argument and result
    exit,      \* "running", "ok" (Ok(())), "err" (Err propagated by ?), "panic"
    log,       \* messages handed to error!(), in order
    stderr,    \* what the user sees on stderr
    outs,      \* output steps executed, in order
    view       \* the last value computed from an entry for output: norm(), the
               \* JSON projection, the MCNP cards; None before the first

vars == <<pc, cli, nuclides, idx, raw, calls, exit, log, stderr, outs, view>>

----------------------------------------------------------------------------
(* Bounds of the model *)

MaxRecs == 3      \* longest raw record pool of the record-level specification
MaxState == 3     \* largest excited-state index requested
MaxTokens == 3    \* most command-line tokens of the parse-level specification
MaxRun == 2       \* most command-line tokens of a whole run of main

----------------------------------------------------------------------------
(* Option and generic sequence helpers *)

None == <<>>
Some(x) == <<x>>
IsSome(o) == Len(o) = 1
Unwrap(o) == o[1]
UnwrapOr(o, d) == IF IsSome(o) THEN Unwrap(o) ELSE d

RECURSIVE SeqsUpTo(_, _)
SeqsUpTo(S, n) ==
    IF n = 0 THEN {<<>>}
    ELSE LET shorter == SeqsUpTo(S, n - 1)
         IN  shorter \cup {Append(s, x) : s \in {t \in shorter : Len(t) = n - 1}, x \in S}

----------------------------------------------------------------------------
(* Strings: sequences of one-character strings, ordered as Rust orders bytes *)

Alphabet == <<"*", "0", "1", "2", "3", "4", "5", "6", "7", "8", "9",
              "C", "O", "S", "Z", "c", "m", "o", "s", "z">>
DigitChars == <<"0", "1", "2", "3", "4", "5", "6", "7", "8", "9">>
UpperChars == <<"C", "O", "S", "Z">>
LowerChars == <<"c", "o", "s", "z">>

InSeq(ch, s) == \E k \in DOMAIN s : s[k] = ch
IndexOf(ch, s) == CHOOSE k \in DOMAIN s : s[k] = ch
Ord(ch) == IndexOf(ch, Alphabet)
IsDigit(ch) == InSeq(ch, DigitChars)
IsLetter(ch) == InSeq(ch, UpperChars) \/ InSeq(ch, LowerChars)
ToUpper(ch) == IF InSeq(ch, LowerChars) THEN UpperChars[IndexOf(ch, LowerChars)] ELSE ch
ToLower(ch) == IF InSeq(ch, UpperChars) THEN LowerChars[IndexOf(ch, UpperChars)] ELSE ch

\* impl Ord for String: lexicographic on bytes, a proper prefix is less
StrLess(a, b) ==
    \/ Len(a) < Len(b) /\ \A k \in DOMAIN a : a[k] = b[k]
    \/ \E k \in DOMAIN a \cap DOMAIN b :
          /\ \A j \in 1..(k - 1) : a[j] = b[j]
          /\ Ord(a[k]) < Ord(b[k])

\* format!("{}", n) of an unsigned integer
RECURSIVE Digits(_)
Digits(n) ==
    IF n < 10 THEN <<DigitChars[n + 1]>>
    ELSE Digits(n \div 10) \o <<DigitChars[(n % 10) + 1]>>

\* str::parse of a non-empty run of decimal digits
RECURSIVE ParseUInt(_)
ParseUInt(s) ==
    IF s = <<>> THEN 0
    ELSE 10 * ParseUInt(SubSeq(s, 1, Len(s) - 1)) + (IndexOf(s[Len(s)], DigitChars) - 1)

----------------------------------------------------------------------------
(* ntools::iaea::Nuclide and IsomerState, as nuclide.rs and cli.rs use them *)

Ground == None            \* IsomerState::Ground
Excited(i) == Some(i)     \* IsomerState::Excited(i)

Elements == {<<"C", "o">>, <<"C", "s">>}

Nuclide(symbol, isotope, state) == [symbol |-> symbol, isotope |-> isotope, state |-> state]

\* Nuclide::name(): symbol and mass number
NuclideName(n) == n.symbol \o Digits(n.isotope)

\* Nuclide::name_with_state(): the name, with the suffix m<i> for Excited(i)
NameWithState(n) ==
    IF IsSome(n.state) THEN NuclideName(n) \o <<"m">> \o Digits(Unwrap(n.state))
    ELSE NuclideName(n)

\* Lengths of the leading run of letters and of digits
RECURSIVE LettersPrefix(_)
LettersPrefix(s) ==
    IF s # <<>> /\ IsLetter(Head(s)) THEN 1 + LettersPrefix(Tail(s)) ELSE 0
RECURSIVE DigitsPrefix(_)
DigitsPrefix(s) ==
    IF s # <<>> /\ IsDigit(Head(s)) THEN 1 + DigitsPrefix(Tail(s)) ELSE 0

Capitalise(s) == [k \in DOMAIN s |-> IF k = 1 THEN ToUpper(s[k]) ELSE ToLower(s[k])]

\* The state suffix: "" and m0 are the ground state, m and * the first excited
\* state, m<i> the i-th.  None when the suffix is malformed.
ParseState(sfx) ==
    IF sfx = <<>> THEN Some(Ground)
    ELSE IF sfx = <<"*">> \/ sfx = <<"m">> THEN Some(Excited(1))
    ELSE IF Head(sfx) = "m" /\ DigitsPrefix(Tail(sfx)) = Len(sfx) - 1
         THEN LET i == ParseUInt(Tail(sfx))
              IN  Some(IF i = 0 THEN Ground ELSE Excited(i))
    ELSE None

\* The element symbol: the leading letters, if they name an element
SymbolLen(tok) ==
    LET n == LettersPrefix(tok)
    IN  IF n > 0 /\ Capitalise(SubSeq(tok, 1, n)) \in Elements THEN n ELSE 0

\* Nuclide::try_from(&String): Some(nuclide), or None for Err
TryFrom(tok) ==
    LET ns == SymbolLen(tok)
        rest == SubSeq(tok, ns + 1, Len(tok))
        nd == DigitsPrefix(rest)
        state == ParseState(SubSeq(rest, nd + 1, Len(rest)))
    IN  IF ns = 0 \/ ~IsSome(state) THEN None
        ELSE Some(Nuclide(Capitalise(SubSeq(tok, 1, ns)),
                          IF nd = 0 THEN 0 ELSE ParseUInt(SubSeq(rest, 1, nd)),
                          Unwrap(state)))

----------------------------------------------------------------------------
(* ntools::iaea::Record (the fields the program reads) and NuclideData *)

Record(p, e, i) == [p_energy |-> p, energy |-> e, intensity |-> i]

\* NuclideData as parse_nuclides builds it.  found and sorted are history
\* fields: how often find_records and sort_records have run on the entry.
NuclideData(n) ==
    [name |-> NameWithState(n), nuclide |-> n, records |-> <<>>,
     found |-> 0, sorted |-> 0]

\* impl PartialEq for NuclideData
NuclideDataEq(a, b) == a.name = b.name /\ a.nuclide = b.nuclide

\* EnergyLess with the sentinel 0.0 for an unset energy
EnergyLessZeroSentinel(a, b) == UnwrapOr(a.energy, 0) < UnwrapOr(b.energy, 0)

\* a.energy.unwrap_or(-1.0) < b.energy.unwrap_or(-1.0)
EnergyLess(a, b) == UnwrapOr(a.energy, -1) < UnwrapOr(b.energy, -1)

\* b.intensity.unwrap_or(-1.0) < a.intensity.unwrap_or(-1.0): descending
IntensityLess(a, b) == UnwrapOr(b.intensity, -1) < UnwrapOr(a.intensity, -1)

\* The comparators the program sorts with, by name: "f32" is partial_cmp on
\* parent energies, "name" the key n.name of sort_by_key
Less(order, a, b) ==
    CASE order = "f32" -> a < b
      [] order = "name" -> StrLess(a.name, b.name)
      [] order = "Energy" -> EnergyLess(a, b)
      [] order = "Intensity" -> IntensityLess(a, b)

\* slice::sort_by / sort_by_key: a stable sort.  x goes behind every element
\* of the sorted prefix that is not greater than it.
RECURSIVE Insert(_, _, _)
Insert(order, sorted, x) ==
    IF sorted = <<>> THEN <<x>>
    ELSE IF Less(order, x, sorted[Len(sorted)])
         THEN Append(Insert(order, SubSeq(sorted, 1, Len(sorted) - 1), x), sorted[Len(sorted)])
         ELSE Append(sorted, x)

RECURSIVE StableSort(_, _)
StableSort(order, s) ==
    IF Len(s) <= 1 THEN s
    ELSE Insert(order, StableSort(order, SubSeq(s, 1, Len(s) - 1)), s[Len(s)])

\* records.iter().filter_map(|r| r.p_energy).collect()
ParentEnergies(records) ==
    LET set == SelectSeq(records, LAMBDA r : IsSome(r.p_energy))
    IN  [k \in DOMAIN set |-> Unwrap(set[k].p_energy)]

\* Vec<f32>::dedup
RECURSIVE DedupF32(_)
DedupF32(s) ==
    IF Len(s) <= 1 THEN s
    ELSE LET rest == DedupF32(Tail(s))
         IN  IF Head(s) = Head(rest) THEN rest ELSE <<Head(s)>> \o rest

\* Ladder without the dedup
LadderNoDedup(records) == StableSort("f32", ParentEnergies(records))

\* parent_energy after sort_unstable_by(partial_cmp) and dedup
Ladder(records) == DedupF32(StableSort("f32", ParentEnergies(records)))

\* let index = if let IsomerState::Excited(i) = state { i } else { 0 }
StateIndex(n) == UnwrapOr(n.state, 0)

\* KeepRecord that lets every record through
KeepRecordAll(r, target) == TRUE

\* The filter closure of find_records
KeepRecord(r, target) == IF IsSome(r.p_energy) THEN Unwrap(r.p_energy) = target ELSE TRUE

\* find_records that takes index >= n for out of range on a ladder without
\* a ground state, as it does on a ladder with one
FindRecordsStrictBound(self, resp) ==
    IF ~IsSome(resp) THEN [self |-> self, panic |-> FALSE]
    ELSE
    LET records == Unwrap(resp)
        parent_energy == DedupF32(StableSort("f32", ParentEnergies(records)))
        index == UnwrapOr(self.nuclide.state, 0)
        n == Len(parent_energy)
    IN  IF n = 0 THEN [self |-> self, panic |-> TRUE]
        ELSE IF index >= n \/ (parent_energy[1] # 0 /\ index = 0)
             THEN [self |-> self, panic |-> FALSE]
        ELSE LET target == IF parent_energy[1] = 0 THEN parent_energy[index + 1]
                           ELSE parent_energy[index]
             IN  [self |-> [self EXCEPT !.records =
                              SelectSeq(records, LAMBDA r :
                                  r.p_energy = None \/ r.p_energy = Some(target))],
                  panic |-> FALSE]

\* NuclideData::find_records on the provider's answer resp (None, or Some(records)).
\* Yields the entry afterwards and whether the call panicked (parent_energy[0]
\* on an empty vector).
FindRecords(self, resp) ==
    IF ~IsSome(resp) THEN [self |-> self, panic |-> FALSE]
    ELSE
    LET records == Unwrap(resp)
        parent_energy == Ladder(records)
        index == StateIndex(self.nuclide)
        n == Len(parent_energy)
    IN  IF n = 0 THEN [self |-> self, panic |-> TRUE]
        ELSE IF parent_energy[1] = 0 THEN
            IF index >= n THEN [self |-> self, panic |-> FALSE]
            ELSE [self |-> [self EXCEPT !.records =
                              SelectSeq(records, LAMBDA r : KeepRecord(r, parent_energy[index + 1]))],
                  panic |-> FALSE]
        ELSE
            IF index = 0 THEN [self |-> self, panic |-> FALSE]
            ELSE IF index > n THEN [self |-> self, panic |-> FALSE]
            ELSE [self |-> [self EXCEPT !.records =
                              SelectSeq(records, LAMBDA r : KeepRecord(r, parent_energy[index]))],
                  panic |-> FALSE]

\* NuclideData::sort_records
SortRecords(records, property) ==
    IF property = "Energy" THEN StableSort("Energy", records)
    ELSE StableSort("Intensity", records)

\* self.records.iter().fold(0.0, |acc, r| acc + r.intensity.unwrap_or(0.0))
RECURSIVE IntensityFold(_)
IntensityFold(records) ==
    IF records = <<>> THEN 0
    ELSE IntensityFold(SubSeq(records, 1, Len(records) - 1))
         + UnwrapOr(records[Len(records)].intensity, 0)

\* norm() that leaves out the records without an energy
NormOfMeasured(self) ==
    [num |-> IntensityFold(SelectSeq(self.records, LAMBDA r : IsSome(r.energy))),
     den |-> 100]

\* NuclideData::norm: the fold divided by 100.0, as the fraction num / den
Norm(self) == [num |-> IntensityFold(self.records), den |-> 100]

\* impl Serialize for NuclideData: the name and the two parallel arrays
Serialize(self) ==
    [name |-> self.name,
     energy |-> [k \in DOMAIN self.records |-> self.records[k].energy],
     intensity |-> [k \in DOMAIN self.records |-> self.records[k].intensity]]

\* One line of the MCNP output: a "c" comment, or the sc, si or sp card of a
\* distribution
Line(card, id, name, norm, values) ==
    [card |-> card, id |-> id, name |-> name, norm |-> norm, values |-> values]

\* record.energy.unwrap() * KEV_TO_MEV, as a fraction
KevToMev(e) == [num |-> e, den |-> 1000]
\* record.intensity.unwrap() * 1e-2, as a fraction
PerCent(i) == [num |-> i, den |-> 100]

\* nuclide_distribution that keeps every record with an energy
NuclideDistributionEnergyOnly(nuclide, id) ==
    LET filtered_records == SelectSeq(nuclide.records, LAMBDA r : IsSome(r.energy))
    IN  IF filtered_records = <<>>
        THEN <<Line("c", None, Some(nuclide.name), None, <<>>)>>
        ELSE <<Line("sc", Some(id), Some(nuclide.name), Some(Norm(nuclide)), <<>>),
               Line("si", Some(id), None, None,
                    [k \in DOMAIN filtered_records |-> KevToMev(Unwrap(filtered_records[k].energy))]),
               Line("sp", Some(id), None, None,
                    [k \in DOMAIN filtered_records |->
                        PerCent(UnwrapOr(filtered_records[k].intensity, 0))]),
               Line("c", None, None, None, <<>>)>>

\* nuclide_distribution: the lines of one source distribution
NuclideDistribution(nuclide, id) ==
    LET filtered_records ==
            SelectSeq(nuclide.records, LAMBDA r : IsSome(r.energy) /\ IsSome(r.intensity))
    IN  IF filtered_records = <<>>
        THEN <<Line("c", None, Some(nuclide.name), None, <<>>)>>
        ELSE <<Line("sc", Some(id), Some(nuclide.name), Some(Norm(nuclide)), <<>>),
               Line("si", Some(id), None, None,
                    [k \in DOMAIN filtered_records |-> KevToMev(Unwrap(filtered_records[k].energy))]),
               Line("sp", Some(id), None, None,
                    [k \in DOMAIN filtered_records |-> PerCent(Unwrap(filtered_records[k].intensity))]),
               Line("c", None, None, None, <<>>)>>

----------------------------------------------------------------------------
(* parse_nuclides and expand_elements *)

\* expand_elements on the provider's answer available: None when load_available
\* or fetch_available failed (the ? returns the Err), else Some(listing).
\* Yields None for Err, Some(candidates) for Ok.
ExpandElements(nuclide, available) ==
    IF ~IsSome(available) THEN None
    ELSE IF nuclide.isotope # 0 THEN Some(<<nuclide>>)
    ELSE Some(SelectSeq(Unwrap(available), LAMBDA n : n.symbol = nuclide.symbol))

\* ParsedTokens that stops at the first token that fails to parse
RECURSIVE ParsedTokensStopAtInvalid(_)
ParsedTokensStopAtInvalid(tokens) ==
    IF tokens = <<>> \/ ~IsSome(TryFrom(Head(tokens))) THEN <<>>
    ELSE <<Unwrap(TryFrom(Head(tokens)))>> \o ParsedTokensStopAtInvalid(Tail(tokens))

\* .filter_map(|n| Nuclide::try_from(n).ok())
RECURSIVE ParsedTokens(_)
ParsedTokens(tokens) ==
    IF tokens = <<>> THEN <<>>
    ELSE (IF IsSome(TryFrom(Head(tokens))) THEN <<Unwrap(TryFrom(Head(tokens)))>> ELSE <<>>)
         \o ParsedTokens(Tail(tokens))

\* .filter_map(|n| expand_elements(n, cli).ok()).flatten()
RECURSIVE FlattenOk(_)
FlattenOk(results) ==
    IF results = <<>> THEN <<>>
    ELSE UnwrapOr(Head(results), <<>>) \o FlattenOk(Tail(results))

\* SortByName that leaves the list as it is
SortByNameSkipped(list) == list

\* nuclide_data.sort_by_key(|n| n.name.clone())
SortByName(list) == StableSort("name", list)

\* Vec<NuclideData>::dedup, under impl PartialEq for NuclideData
RECURSIVE DedupNuclides(_)
DedupNuclides(list) ==
    IF Len(list) <= 1 THEN list
    ELSE LET rest == DedupNuclides(Tail(list))
         IN  IF NuclideDataEq(Head(list), Head(rest)) THEN <<Head(list)>> \o Tail(rest)
             ELSE <<Head(list)>> \o rest

\* The list parse_nuclides holds after sort and dedup, given the results of
\* its expand_elements calls (one per token that parsed)
NuclideList(results) ==
    LET flat == FlattenOk(results)
        nuclide_data == [k \in DOMAIN flat |-> NuclideData(flat[k])]
    IN  DedupNuclides(SortByName(nuclide_data))

\* The expand_elements calls of one parse_nuclides: the k-th parsed token gets
\* the provider's k-th answer
ExpandCalls(tokens, answers) ==
    LET parsed == ParsedTokens(tokens)
    IN  [k \in DOMAIN parsed |->
            [nuclide |-> parsed[k], available |-> answers[k],
             result |-> ExpandElements(parsed[k], answers[k])]]

\* parse_nuclides: None for Err("No decay data found"), else Some(list)
ParseNuclides(tokens, answers) ==
    LET cs == ExpandCalls(tokens, answers)
        list == NuclideList([k \in DOMAIN cs |-> cs[k].result])
    IN  IF list = <<>> THEN None ELSE Some(list)

----------------------------------------------------------------------------
(* Inputs: command-line tokens, provider listings and record pools *)

Co58 == Nuclide(<<"C", "o">>, 58, Ground)
Co60 == Nuclide(<<"C", "o">>, 60, Ground)
Co60m1 == Nuclide(<<"C", "o">>, 60, Excited(1))
Cs137 == Nuclide(<<"C", "s">>, 137, Ground)

\* co60 Co60 CO60 co60m co zz
ParseTokens ==
    {<<"c", "o", "6", "0">>, <<"C", "o", "6", "0">>, <<"C", "O", "6", "0">>,
     <<"c", "o", "6", "0", "m">>, <<"c", "o">>, <<"z", "z">>}

\* co60m co zz
RunTokens == {<<"c", "o", "6", "0", "m">>, <<"c", "o">>, <<"z", "z">>}

\* co60m<i>; co60m0 is the ground state
RecordToken(i) == <<"c", "o", "6", "0", "m">> \o Digits(i)

\* The provider's listing of available nuclides: a Vec<Nuclide> without repeats
Listings ==
    LET pool == {Co60, Co60m1, Cs137}
    IN  {l \in SeqsUpTo(pool, 2) : \A j, k \in DOMAIN l : j # k => l[j] # l[k]}

\* The provider's answers to the expand_elements calls of one run, from
\* load_available or fetch_available alike (cli.fetch only chooses between
\* them).  The listing sits in a once-cell: after the first answer that is Ok,
\* every answer is the same listing; the answers before it are Err.
Answers(listings, n) ==
    {[k \in 1..n |-> IF k <= failed THEN None ELSE Some(l)] :
        failed \in 0..n, l \in listings}

RunListings == {<<Co58, Co60>>, <<Co60, Co60m1>>}

PEnergies == {None, Some(0), Some(150), Some(300)}
Measured == {<<None, Some(40)>>, <<Some(0), None>>, <<Some(0), Some(35)>>, <<Some(5), Some(35)>>}
Records == {Record(p, m[1], m[2]) : p \in PEnergies, m \in Measured}

\* Answers of load_nuclide / fetch_nuclide: None, or Some(raw pool)
RecordPools == {None} \cup {Some(s) : s \in SeqsUpTo(Records, MaxRecs)}

RunPools ==
    {None, Some(<<>>),
     Some(<<Record(Some(0), Some(5), Some(35)), Record(None, None, Some(40))>>),
     Some(<<Record(Some(150), Some(0), Some(35))>>)}

Properties == {"Energy", "Intensity"}

Cli(tokens, sort, quiet, text, json, mcnp, csv) ==
    [nuclides |-> tokens, sort |-> sort, quiet |-> quiet,
     text |-> text, json |-> json, mcnp |-> mcnp, csv |-> csv]

----------------------------------------------------------------------------
(* Logging and termination *)

NoDataLog == "No decay data found for any requested nuclide"
NoDataErr == "Error: No decay data found"
NoRecordsLog == "No nuclides have relevant decay data records"

\* error!(msg): stderrlog drops the message when --quiet is set
Logged(msg) == Append(log, msg)
Shown(msg) == IF cli.quiet THEN stderr ELSE Append(stderr, msg)

----------------------------------------------------------------------------
(* main *)

\* let mut nuclides = nuclide::parse_nuclides(&cli)?; the provider answering
\* with one of listings
ParseStep(listings) ==
    /\ pc = "parse"
    /\ \E answers \in Answers(listings, Len(ParsedTokens(cli.nuclides))) :
         LET res == ParseNuclides(cli.nuclides, answers)
         IN  /\ calls' = ExpandCalls(cli.nuclides, answers)
             /\ IF IsSome(res)
                THEN /\ nuclides' = Unwrap(res)
                     /\ pc' = "find"
                     /\ UNCHANGED <<exit, log, stderr>>
                ELSE /\ log' = Logged(NoDataLog)
                     /\ stderr' = Append(Shown(NoDataLog), NoDataErr)
                     /\ exit' = "err"
                     /\ pc' = "done"
                     /\ UNCHANGED nuclides
    /\ UNCHANGED <<cli, idx, raw, outs, view>>

\* n.find_records(cli.rad.into(), cli.fetch), the provider answering from pools
FindStep(pools) ==
    /\ pc = "find"
    /\ \E resp \in pools :
         LET res == FindRecords(nuclides[idx], resp)
         IN  /\ raw' = resp
             /\ IF res.panic
                THEN /\ exit' = "panic"
                     /\ pc' = "done"
                     /\ UNCHANGED nuclides
                ELSE /\ nuclides' = [nuclides EXCEPT ![idx] =
                                        [res.self EXCEPT !.found = @ + 1]]
                     /\ pc' = "sort"
                     /\ UNCHANGED exit
    /\ UNCHANGED <<cli, idx, calls, log, stderr, outs, view>>

\* n.sort_records(&cli.sort), and the loop's step to the next entry
SortStep ==
    /\ pc = "sort"
    /\ nuclides' = [nuclides EXCEPT ![idx] =
                      [@ EXCEPT !.records = SortRecords(@, cli.sort), !.sorted = @ + 1]]
    /\ idx' = idx + 1
    /\ pc' = IF idx < Len(nuclides) THEN "find" ELSE "retain"
    /\ UNCHANGED <<cli, raw, calls, exit, log, stderr, outs, view>>

\* RetainStep without the retain
RetainStepKeepAll ==
    /\ pc = "retain"
    /\ nuclides' = StableSort("name", nuclides)
    /\ pc' = "table"
    /\ UNCHANGED <<cli, idx, raw, calls, outs, exit, log, stderr, view>>

\* RetainStep without the return on an empty list
RetainStepNoReturn ==
    /\ pc = "retain"
    /\ nuclides' = StableSort("name", SelectSeq(nuclides, LAMBDA n : n.records # <<>>))
    /\ pc' = "table"
    /\ UNCHANGED <<cli, idx, raw, calls, outs, exit, log, stderr, view>>

\* nuclides.retain(..); the empty check; nuclides.sort_by_key(..)
RetainStep ==
    /\ pc = "retain"
    /\ LET kept == SelectSeq(nuclides, LAMBDA n : n.records # <<>>)
       IN  IF kept = <<>>
           THEN /\ nuclides' = kept
                /\ log' = Logged(NoRecordsLog)
                /\ stderr' = Shown(NoRecordsLog)
                /\ exit' = "ok"
                /\ pc' = "done"
           ELSE /\ nuclides' = SortByName(kept)
                /\ pc' = "table"
                /\ UNCHANGED <<exit, log, stderr>>
    /\ UNCHANGED <<cli, idx, raw, calls, outs, view>>

\* An output step that writes a file when its flag is set; creating or writing
\* the file may fail, and the ? ends the run with the Err
FileStep(at, flag, next) ==
    /\ pc = at
    /\ IF flag
       THEN \E written \in BOOLEAN :
              /\ outs' = Append(outs, at)
              /\ IF written
                 THEN /\ pc' = next
                      /\ exit' = IF next = "done" THEN "ok" ELSE exit
                 ELSE /\ pc' = "done"
                      /\ exit' = "err"
       ELSE /\ pc' = next
            /\ exit' = IF next = "done" THEN "ok" ELSE exit
            /\ UNCHANGED outs
    /\ UNCHANGED <<cli, nuclides, idx, raw, calls, log, stderr, view>>

\* let table = table::Table::new(&nuclides); if !cli.quiet { table.print(..) }
TableStep ==
    /\ pc = "table"
    /\ outs' = Append(outs, IF cli.quiet THEN "table" ELSE "print")
    /\ pc' = "text"
    /\ UNCHANGED <<cli, nuclides, idx, raw, calls, exit, log, stderr, view>>

TextStep == FileStep("text", cli.text, "json")
JsonStep == FileStep("json", cli.json, "mcnp")
McnpStep == FileStep("mcnp", cli.mcnp, "csv")
CsvStep == FileStep("csv", cli.csv, "done")

----------------------------------------------------------------------------
(* Specifications *)

\* A whole run of main
Init ==
    /\ pc = "parse"
    /\ \E tokens \in SeqsUpTo(RunTokens, MaxRun), sort \in Properties,
          quiet, text, json, mcnp, csv \in BOOLEAN :
         cli = Cli(tokens, sort, quiet, text, json, mcnp, csv)
    /\ nuclides = <<>>
    /\ idx = 1
    /\ raw = None
    /\ calls = <<>>
    /\ exit = "running"
    /\ log = <<>>
    /\ stderr = <<>>
    /\ outs = <<>>
    /\ view = None

Next ==
    \/ ParseStep(RunListings)
    \/ FindStep(RunPools)
    \/ SortStep
    \/ RetainStep
    \/ TableStep
    \/ TextStep
    \/ JsonStep
    \/ McnpStep
    \/ CsvStep

Spec == Init /\ [][Next]_vars

\* parse_nuclides alone, over every list of tokens
InitParse ==
    /\ pc = "parse"
    /\ \E tokens \in SeqsUpTo(ParseTokens, MaxTokens), quiet \in BOOLEAN :
         cli = Cli(tokens, "Energy", quiet, FALSE, FALSE, FALSE, FALSE)
    /\ nuclides = <<>>
    /\ idx = 1
    /\ raw = None
    /\ calls = <<>>
    /\ exit = "running"
    /\ log = <<>>
    /\ stderr = <<>>
    /\ outs = <<>>
    /\ view = None

NextParse == ParseStep(Listings)

SpecParse == InitParse /\ [][NextParse]_vars

\* find_records and sort_records on one NuclideData, over every raw pool:
\* the state after parse_nuclides of a run "ddata co60m<i>"
InitRecords ==
    /\ pc = "find"
    /\ \E i \in 0..MaxState, sort \in Properties :
         LET tokens == <<RecordToken(i)>>
             answers == <<Some(<<>>)>>
         IN  /\ cli = Cli(tokens, sort, FALSE, FALSE, FALSE, FALSE, FALSE)
             /\ nuclides = Unwrap(ParseNuclides(tokens, answers))
             /\ calls = ExpandCalls(tokens, answers)
    /\ idx = 1
    /\ raw = None
    /\ exit = "running"
    /\ log = <<>>
    /\ stderr = <<>>
    /\ outs = <<>>
    /\ view = None

NextRecords ==
    \/ FindStep(RecordPools)
    \/ SortStep

SpecRecords == InitRecords /\ [][NextRecords]_vars

\* The methods that read one NuclideData for output, on the entry that find_records
\* and sort_records have left
ViewMeasured == {<<None, None>>, <<None, Some(40)>>, <<Some(0), None>>, <<Some(5), Some(35)>>}
ViewRecords ==
    {Record(p, m[1], m[2]) : p \in {None, Some(0), Some(150)}, m \in ViewMeasured}
ViewPools == {None} \cup {Some(s) : s \in SeqsUpTo(ViewRecords, MaxRecs)}

\* A call of a &self method on the first entry: the entry as the call leaves it
\* stays in nuclides, the entry it was called on and the value go to view
ViewCall(call, value) ==
    /\ pc = "retain"
    /\ view = None
    /\ view' = Some([call |-> call, self |-> nuclides[1], value |-> value])
    /\ UNCHANGED <<pc, cli, nuclides, idx, raw, calls, exit, log, stderr, outs>>

\* n.norm()
NormCall == ViewCall("norm", Norm(nuclides[1]))

\* serde_json::to_writer_pretty on the entry
SerializeCall == ViewCall("json", Serialize(nuclides[1]))

\* The distribution numbers of the first entry: the default --id and one other
McnpIds == {100, 7}

\* nuclide_distribution(nuclide, id + 0)
DistributionCall == \E id \in McnpIds : ViewCall("mcnp", NuclideDistribution(nuclides[1], id))

InitViews ==
    /\ pc = "find"
    /\ \E i \in 0..1, sort \in Properties :
         LET tokens == <<RecordToken(i)>>
             answers == <<Some(<<>>)>>
         IN  /\ cli = Cli(tokens, sort, FALSE, FALSE, FALSE, FALSE, FALSE)
             /\ nuclides = Unwrap(ParseNuclides(tokens, answers))
             /\ calls = ExpandCalls(tokens, answers)
    /\ idx = 1
    /\ raw = None
    /\ exit = "running"
    /\ log = <<>>
    /\ stderr = <<>>
    /\ outs = <<>>
    /\ view = None

NextViews ==
    \/ FindStep(ViewPools)
    \/ SortStep
    \/ NormCall
    \/ SerializeCall
    \/ DistributionCall

SpecViews == InitViews /\ [][NextViews]_vars

----------------------------------------------------------------------------
(* The energy ladder, stated on sets: what the claims about find_records mean *)

Range(s) == {s[k] : k \in DOMAIN s}

\* The distinct parent energies that are set in a pool
LadderSet(pool) == {Unwrap(r.p_energy) : r \in {q \in Range(pool) : IsSome(q.p_energy)}}

\* Element i (from 0) of the ascending ladder: the value with i values below it
LadderAt(pool, i) ==
    CHOOSE x \in LadderSet(pool) : Cardinality({y \in LadderSet(pool) : y < x}) = i

ZeroBased(pool) == 0 \in LadderSet(pool) /\ \A y \in LadderSet(pool) : y >= 0
NoGround(pool) == LadderSet(pool) # {} /\ 0 \notin LadderSet(pool)

\* The raw records of one parent energy, with those of unknown parent energy
Selected(pool, target) ==
    SelectSeq(pool, LAMBDA r : r.p_energy = None \/ r.p_energy = Some(target))

\* The entry find_records has just run on, and what it asked for
Resolved == pc = "sort" /\ IsSome(raw)
Entry == nuclides[idx]
Requested == IF Entry.nuclide.state = Ground THEN 0 ELSE Unwrap(Entry.nuclide.state)

\* C1: on a ladder of n values whose lowest is 0, state index i < n yields the
\* raw records of ladder[i] or of unset parent energy, in pool order, and
\* i >= n yields no records.
C1_ZeroBasedLadder ==
    (Resolved /\ ZeroBased(Unwrap(raw))) =>
        LET pool == Unwrap(raw)
            n == Cardinality(LadderSet(pool))
        IN  IF Requested < n
            THEN Entry.records = Selected(pool, LadderAt(pool, Requested))
            ELSE Entry.records = <<>>

\* Ladder [0, 150, 300], state index 2: the records of 300 are selected
C1_Witness ==
    /\ Resolved
    /\ LadderSet(Unwrap(raw)) = {0, 150, 300}
    /\ Requested = 2
    /\ Entry.records # <<>>
    /\ \A k \in DOMAIN Entry.records : Entry.records[k].p_energy = Some(300)

\* C2: on a ladder of n >= 1 values whose lowest is not 0, state index 0 yields
\* no records, 1 <= i <= n yields the records of ladder[i-1] or of unset parent
\* energy, and i > n yields no records.
C2_NoGroundShift ==
    (Resolved /\ NoGround(Unwrap(raw))) =>
        LET pool == Unwrap(raw)
            n == Cardinality(LadderSet(pool))
        IN  IF 1 <= Requested /\ Requested <= n
            THEN Entry.records = Selected(pool, LadderAt(pool, Requested - 1))
            ELSE Entry.records = <<>>

\* Ladder [150, 300], state index 2: the records of 300 are selected
C2_Witness ==
    /\ Resolved
    /\ LadderSet(Unwrap(raw)) = {150, 300}
    /\ Requested = 2
    /\ Entry.records # <<>>
    /\ \A k \in DOMAIN Entry.records : Entry.records[k].p_energy = Some(300)

\* The state index has a target on the ladder of the pool
HasTarget(pool, i) ==
    LET n == Cardinality(LadderSet(pool))
    IN  IF 0 \in LadderSet(pool) THEN i < n ELSE 1 <= i /\ i <= n
Target(pool, i) ==
    IF 0 \in LadderSet(pool) THEN LadderAt(pool, i) ELSE LadderAt(pool, i - 1)

\* C3: once find_records has run, every record of the entry whose parent
\* energy is set carries the target value of the ladder, whatever the provider
\* answered and whatever state was requested.
C3_Partition ==
    \A e \in DOMAIN nuclides :
        (nuclides[e].found >= 1 /\ e = idx - (IF pc = "sort" THEN 0 ELSE 1)) =>
            \A k \in DOMAIN nuclides[e].records :
                LET r == nuclides[e].records[k]
                    i == StateIndex(nuclides[e].nuclide)
                IN  IsSome(r.p_energy) =>
                        /\ IsSome(raw)
                        /\ HasTarget(Unwrap(raw), i)
                        /\ Unwrap(r.p_energy) = Target(Unwrap(raw), i)

\* A pool of three parent energies and a record of unknown parent energy,
\* narrowed to one parent energy
C3_Witness ==
    /\ pc = "sort"
    /\ IsSome(raw)
    /\ Cardinality(LadderSet(Unwrap(raw))) = 2
    /\ \E k \in DOMAIN Unwrap(raw) : Unwrap(raw)[k].p_energy = None
    /\ Len(Entry.records) = 2
    /\ \E k \in DOMAIN Entry.records : Entry.records[k].p_energy = Some(150)

\* The order the claim gives the records: by energy, unset first
EnergyOrdered(s) ==
    \A j, k \in DOMAIN s : j < k =>
        /\ s[k].energy = None => s[j].energy = None
        /\ (IsSome(s[j].energy) /\ IsSome(s[k].energy)) =>
               Unwrap(s[j].energy) <= Unwrap(s[k].energy)

\* By falling intensity, unset last
IntensityOrdered(s) ==
    \A j, k \in DOMAIN s : j < k =>
        /\ s[j].intensity = None => s[k].intensity = None
        /\ (IsSome(s[j].intensity) /\ IsSome(s[k].intensity)) =>
               Unwrap(s[j].intensity) >= Unwrap(s[k].intensity)

\* after holds the records of before, those of each key in their previous order
SameGroups(before, after, Key(_)) ==
    /\ Len(after) = Len(before)
    /\ \A r \in Range(before) \cup Range(after) :
          SelectSeq(after, LAMBDA q : Key(q) = Key(r))
            = SelectSeq(before, LAMBDA q : Key(q) = Key(r))

SortLaw(before, after, property) ==
    IF property = "Energy"
    THEN EnergyOrdered(after) /\ SameGroups(before, after, LAMBDA r : r.energy)
    ELSE IntensityOrdered(after) /\ SameGroups(before, after, LAMBDA r : r.intensity)

\* C10: sort_records permutes the records; Energy orders them by rising
\* energy with the unset energies first, Intensity by falling intensity with
\* the unset intensities last, and records of equal key keep their order.
C10_SortLaws ==
    [][pc = "sort" => SortLaw(nuclides[idx].records, nuclides'[idx].records, cli.sort)]_vars

\* Three records sorted by energy: the one of unset energy came to the front,
\* the two of equal energy follow
C10_Witness ==
    /\ pc = "retain"
    /\ cli.sort = "Energy"
    /\ IsSome(raw)
    /\ Len(Unwrap(raw)) = 3
    /\ Unwrap(raw)[3].energy = None
    /\ Len(nuclides[1].records) = 3
    /\ nuclides[1].records[1].energy = None
    /\ nuclides[1].records[2].energy = nuclides[1].records[3].energy
    /\ nuclides[1].records[2] # nuclides[1].records[3]

----------------------------------------------------------------------------
(* parse_nuclides *)

Parsed == pc # "parse"
ProviderFailed == \E k \in DOMAIN calls : calls[k].available = None

\* C4: a run in which the provider of the listing fails ends as a hard
\* failure that is not the NoDataFound outcome, and goes on with no token
\* dropped.
C4_ProviderFailureIsHard ==
    (Parsed /\ ProviderFailed) => (exit = "err" /\ NoDataErr \notin Range(stderr))

\* C5: for an identifier with mass number 0, expand_elements returns exactly
\* the ground-state entries of the listing with its symbol; an identifier
\* with a mass number comes back as the one candidate.
C5_ExpandsToGroundStates ==
    \A k \in DOMAIN calls :
        LET c == calls[k]
        IN  IsSome(c.available) =>
                IF c.nuclide.isotope = 0
                THEN c.result = Some(SelectSeq(Unwrap(c.available),
                         LAMBDA n : n.symbol = c.nuclide.symbol /\ n.state = Ground))
                ELSE c.result = Some(<<c.nuclide>>)

\* C6: the list parse_nuclides returns is sorted by name and holds no two
\* entries of the same name and identifier; an identifier that was asked for
\* by several tokens is there once.
C6_SortedNoDuplicates ==
    pc = "find" =>
        /\ \A j, k \in DOMAIN nuclides : j < k =>
              /\ ~StrLess(nuclides[k].name, nuclides[j].name)
              /\ ~(nuclides[j].name = nuclides[k].name
                   /\ nuclides[j].nuclide = nuclides[k].nuclide)
        /\ \A c \in DOMAIN calls :
              (calls[c].nuclide.isotope # 0 /\ IsSome(calls[c].available)) =>
                  Cardinality({k \in DOMAIN nuclides :
                                  nuclides[k].nuclide = calls[c].nuclide}) = 1

\* ddata Co60 co60 CO60, in any order, gives one entry
C6_Witness ==
    /\ pc = "find"
    /\ Len(cli.nuclides) = 3
    /\ Range(cli.nuclides) =
          {<<"c", "o", "6", "0">>, <<"C", "o", "6", "0">>, <<"C", "O", "6", "0">>}
    /\ Len(nuclides) = 1
    /\ nuclides[1].nuclide = Co60

\* The candidates the expand_elements calls of the run returned
Candidates ==
    UNION {Range(Unwrap(calls[k].result)) : k \in {c \in DOMAIN calls : IsSome(calls[c].result)}}

\* C7: parse_nuclides fails with NoDataFound exactly when no candidate is
\* left; a token that does not parse is dropped and the others are expanded
\* as without it; otherwise the call returns the candidates, each with empty
\* records.
C7_NoDataFoundIffEmpty ==
    Parsed =>
        LET valid == SelectSeq(cli.nuclides, LAMBDA t : IsSome(TryFrom(t)))
        IN  /\ Len(calls) = Len(valid)
            /\ \A k \in DOMAIN calls : calls[k].nuclide = Unwrap(TryFrom(valid[k]))
            /\ (exit = "err") <=> (Candidates = {})
            /\ (exit = "err") => (nuclides = <<>> /\ NoDataErr \in Range(stderr))
            /\ (exit # "err") =>
                  /\ {nuclides[k].nuclide : k \in DOMAIN nuclides} = Candidates
                  /\ (pc = "find" => \A k \in DOMAIN nuclides : nuclides[k].records = <<>>)

\* A token that does not parse before one that does: the call returns the
\* entry of the second
C7_Witness ==
    /\ pc = "find"
    /\ Len(cli.nuclides) >= 2
    /\ ~IsSome(TryFrom(cli.nuclides[1]))
    /\ nuclides # <<>>
    /\ \A k \in DOMAIN nuclides : nuclides[k].records = <<>>

----------------------------------------------------------------------------
(* main *)

Rendering == pc \in {"table", "text", "json", "mcnp", "csv"} \/ outs # <<>>

\* C8: whenever an output step runs, every entry of the list has a record,
\* has been through find_records once and sort_records once, and the list is
\* in the order of the names.
C8_RenderedEntries ==
    Rendering =>
        /\ nuclides # <<>>
        /\ \A k \in DOMAIN nuclides :
              /\ nuclides[k].records # <<>>
              /\ nuclides[k].found = 1
              /\ nuclides[k].sorted = 1
        /\ \A j, k \in DOMAIN nuclides : j < k => StrLess(nuclides[j].name, nuclides[k].name)

\* A finished run that wrote the JSON file for two entries after an entry
\* without records was dropped
C8_Witness ==
    /\ pc = "done"
    /\ exit = "ok"
    /\ "json" \in Range(outs)
    /\ Len(nuclides) = 2
    /\ idx = 4

AllEmpty == pc = "retain" /\ \A k \in DOMAIN nuclides : nuclides[k].records = <<>>

\* C9 as stated: when every entry resolves to no records, the run reports it
\* to the user and ends without an output step.
C9_ReportsNoData ==
    [][AllEmpty => (pc' = "done" /\ outs' = <<>> /\ NoRecordsLog \in Range(stderr'))]_vars

\* C9 amended: the report is the error! message, which --quiet suppresses;
\* the run returns Ok and ends without an output step.
C9_LogsNoData ==
    [][AllEmpty =>
         /\ pc' = "done"
         /\ exit' = "ok"
         /\ outs' = <<>>
         /\ NoRecordsLog \in Range(log')
         /\ (~cli.quiet => NoRecordsLog \in Range(stderr'))]_vars

\* Two entries resolved to no records with every output flag set: the run is
\* over and no output step has run
C9_Witness ==
    /\ pc = "done"
    /\ idx = 3
    /\ nuclides = <<>>
    /\ cli.text /\ cli.json /\ cli.mcnp /\ cli.csv
    /\ exit = "ok"
    /\ outs = <<>>

----------------------------------------------------------------------------
(* norm, the JSON projection and the MCNP cards *)

Called(call) == IsSome(view) /\ Unwrap(view).call = call

\* The sum of the intensities that are set, counted value by value
RECURSIVE SumOfSet(_, _)
SumOfSet(s, values) ==
    IF values = {} THEN 0
    ELSE LET v == CHOOSE x \in values : TRUE
         IN  v * Cardinality({k \in DOMAIN s : s[k].intensity = Some(v)})
             + SumOfSet(s, values \ {v})
TotalIntensity(s) ==
    SumOfSet(s, {Unwrap(s[k].intensity) : k \in {j \in DOMAIN s : IsSome(s[j].intensity)}})

\* C11: norm() is the sum of the intensities of the records, an unset
\* intensity counting 0 whether or not the energy is set, divided by 100; it
\* leaves the records as they are; [40, 35, unset] gives 0.75, no records 0.
C11_Norm ==
    Called("norm") =>
        LET v == Unwrap(view)
            recs == v.self.records
        IN  /\ v.value.den # 0
            /\ v.value.num * 100 = TotalIntensity(recs) * v.value.den
            /\ nuclides[1] = v.self
            /\ [k \in DOMAIN recs |-> recs[k].intensity] = <<Some(40), Some(35), None>>
                  => v.value.num * 4 = 3 * v.value.den
            /\ recs = <<>> => v.value.num = 0

\* norm() of three records of intensities 40, 35 and unset, the first without
\* an energy: 0.75
C11_Witness ==
    /\ Called("norm")
    /\ Len(Unwrap(view).self.records) = 3
    /\ [k \in 1..3 |-> Unwrap(view).self.records[k].intensity] = <<Some(40), Some(35), None>>
    /\ Unwrap(view).self.records[1].energy = None
    /\ Unwrap(view).value.num * 4 = 3 * Unwrap(view).value.den

Incomplete(r) == r.energy = None \/ r.intensity = None
Count(s, r) == Cardinality({k \in DOMAIN s : s[k] = r})

\* The positions of the records with both values, and the rank of one of them
\* among them
CompleteAt(recs) == {k \in DOMAIN recs : ~Incomplete(recs[k])}
Rank(recs, k) == Cardinality({j \in CompleteAt(recs) : j <= k})
Cards(lines, card) == SelectSeq(lines, LAMBDA l : l.card = card)

\* Every record of the selected group that lacks a value is in the entry,
\* as often as in the provider's answer
Retained ==
    (nuclides[1].found >= 1 /\ IsSome(raw)
        /\ HasTarget(Unwrap(raw), StateIndex(nuclides[1].nuclide))) =>
        LET pool == Unwrap(raw)
            group == Selected(pool, Target(pool, StateIndex(nuclides[1].nuclide)))
        IN  \A k \in DOMAIN group :
                Incomplete(group[k]) =>
                    Count(nuclides[1].records, group[k]) = Count(group, group[k])

\* The energy and intensity arrays follow the records one for one
JsonParallel ==
    Called("json") =>
        LET v == Unwrap(view)
            recs == v.self.records
        IN  /\ Len(v.value.energy) = Len(recs)
            /\ Len(v.value.intensity) = Len(recs)
            /\ \A k \in DOMAIN recs :
                  /\ v.value.energy[k] = recs[k].energy
                  /\ v.value.intensity[k] = recs[k].intensity

\* The si and sp cards follow the records with both values one for one, and
\* without such a record there is one comment line and no card
CardsOfComplete ==
    Called("mcnp") =>
        LET v == Unwrap(view)
            recs == v.self.records
            K == CompleteAt(recs)
            si == Cards(v.value, "si")
            sp == Cards(v.value, "sp")
        IN  IF K = {}
            THEN /\ Len(v.value) = 1
                 /\ v.value[1].card = "c"
                 /\ v.value[1].values = <<>>
            ELSE /\ Len(si) = 1
                 /\ Len(sp) = 1
                 /\ Len(si[1].values) = Cardinality(K)
                 /\ Len(sp[1].values) = Cardinality(K)
                 /\ \A k \in K :
                       /\ si[1].values[Rank(recs, k)].num * 1000
                             = Unwrap(recs[k].energy) * si[1].values[Rank(recs, k)].den
                       /\ sp[1].values[Rank(recs, k)].num * 100
                             = Unwrap(recs[k].intensity) * sp[1].values[Rank(recs, k)].den

\* C12: records that lack an energy or an intensity stay in the entry through
\* selection and sorting and have their place in both JSON arrays, which are
\* as long as the record list and in its order; the si and sp cards hold one
\* value per record with both, in record order, and an entry without such a
\* record gives a comment line and no cards.
C12_IncompleteRecords == Retained /\ JsonParallel /\ CardsOfComplete

\* Cards of an entry of three records, the first lacking a value: two values
\* on each card, the second and the third record's
C12_Witness ==
    /\ Called("mcnp")
    /\ nuclides[1].sorted >= 1
    /\ Len(Unwrap(view).self.records) = 3
    /\ CompleteAt(Unwrap(view).self.records) = {2, 3}
    /\ Len(Cards(Unwrap(view).value, "si")[1].values) = 2

----------------------------------------------------------------------------
(* find_records on a pool without parent energies *)

\* C13: find_records returns normally for every answer of the provider and
\* every requested state: with no answer, an empty pool or a pool without a
\* parent energy the entry is left with a well-defined record set and the run
\* is not aborted.
C13_FindRecordsReturns ==
    pc # "find" => (exit # "panic" /\ nuclides[1].found >= 1)

=============================================================================
